---------------------------- MODULE Spec2Model ----------------------------
(***************************************************************************)
(* PowerAware: a TOPSIS score plugin for the Kubernetes scheduler          *)
(* (simulator/scheduler/plugin/powertopsis/plugin.go).                     *)
(*                                                                         *)
(* The plugin computes with float64.  The model computes with a decimal    *)
(* floating-point format of Digits significant digits: every operation     *)
(* returns the representable value nearest to the exact result, as IEEE    *)
(* arithmetic does, so rounding, the order of a summation and the          *)
(* comparisons against 1e-9 behave in the model as they do in the code.    *)
(* The exponent is an unbounded integer: overflow to +Inf is not modelled  *)
(* and the inputs are of ordinary magnitude.                               *)
(***************************************************************************)
EXTENDS Integers, Sequences, FiniteSets, TLC

\* Significant decimal digits of the model's floating-point format.
Digits == 3

\* Terms of the series that stands for math.Exp.
ExpTerms == 12

\* Longest candidate list handed to PreScore.
MaxNodes == 3

\* Most pods assigned to one node.
MaxPods == 1

-----------------------------------------------------------------------------
(***************************************************************************)
(* Floating point.  A float is [m |-> mantissa, e |-> exponent], the value *)
(* m * 10^e, with m = 0 /\ e = 0 or 10^(Digits-1) <= |m| < 10^Digits.      *)
(***************************************************************************)

Abs(x) == IF x < 0 THEN -x ELSE x

Sgn(x) == IF x < 0 THEN -1 ELSE IF x > 0 THEN 1 ELSE 0

Pow10(n) == 10 ^ n

\* Number of decimal digits of n > 0 (n < 2^31).
NumDigits(n) ==
    IF n < 10 THEN 1 ELSE IF n < 100 THEN 2 ELSE IF n < 1000 THEN 3
    ELSE IF n < 10000 THEN 4 ELSE IF n < 100000 THEN 5
    ELSE IF n < 1000000 THEN 6 ELSE IF n < 10000000 THEN 7
    ELSE IF n < 100000000 THEN 8 ELSE IF n < 1000000000 THEN 9 ELSE 10

\* The integer nearest to n / d (n >= 0, d > 0), ties to even.
RoundHalfEven(n, d) ==
    LET q == n \div d
        r == n % d
    IN  IF 2 * r > d \/ (2 * r = d /\ q % 2 = 1) THEN q + 1 ELSE q

\* The float nearest to M * 10^E.
FNorm(M, E) ==
    IF M = 0 THEN [m |-> 0, e |-> 0]
    ELSE LET a == Abs(M)
             d == NumDigits(a)
         IN  IF d > Digits
             THEN LET sh == d - Digits
                      q == RoundHalfEven(a, Pow10(sh))
                  IN  IF q = Pow10(Digits)
                      THEN [m |-> Sgn(M) * Pow10(Digits - 1), e |-> E + sh + 1]
                      ELSE [m |-> Sgn(M) * q, e |-> E + sh]
             ELSE [m |-> M * Pow10(Digits - d), e |-> E - (Digits - d)]

\* float64(n) for an integer n.
FInt(n) == FNorm(n, 0)

FZero == [m |-> 0, e |-> 0]

FNeg(a) == [m |-> -a.m, e |-> a.e]

\* a * b
FMul(a, b) == FNorm(a.m * b.m, a.e + b.e)

\* a + b.  An addend more than Digits+1 places below the other is absorbed.
FAdd(a, b) ==
    IF a.m = 0 THEN b
    ELSE IF b.m = 0 THEN a
    ELSE LET hi == IF a.e < b.e THEN b ELSE a
             lo == IF a.e < b.e THEN a ELSE b
             diff == hi.e - lo.e
         IN  IF diff > Digits + 1 THEN hi
             ELSE FNorm(hi.m * Pow10(diff) + lo.m, lo.e)

\* a - b
FSub(a, b) == FAdd(a, FNeg(b))

\* a / b, b # 0
FDiv(a, b) ==
    IF a.m = 0 THEN FZero
    ELSE LET N == Abs(a.m) * Pow10(Digits + 1)
             D == Abs(b.m)
             sh == NumDigits(N \div D) - Digits
             q == RoundHalfEven(N, D * Pow10(sh))
             s == Sgn(a.m) * Sgn(b.m)
             E == a.e - b.e - (Digits + 1)
         IN  IF q = Pow10(Digits)
             THEN [m |-> s * Pow10(Digits - 1), e |-> E + sh + 1]
             ELSE [m |-> s * q, e |-> E + sh]

\* The largest r in lo..hi with r * r <= n.
RECURSIVE ISqrt(_, _, _)
ISqrt(n, lo, hi) ==
    IF lo >= hi THEN lo
    ELSE LET mid == (lo + hi + 1) \div 2
         IN  IF mid * mid <= n THEN ISqrt(n, mid, hi) ELSE ISqrt(n, lo, mid - 1)

\* math.Sqrt(a), a >= 0
FSqrt(a) ==
    IF a.m = 0 THEN FZero
    ELSE LET t == IF (a.e - (Digits - 1)) % 2 = 0 THEN Digits - 1 ELSE Digits
             R == a.m * Pow10(t)
             r == ISqrt(R, 0, Pow10(Digits))
             up == IF r * r + r < R THEN r + 1 ELSE r
         IN  FNorm(up, (a.e - t) \div 2)

\* a < b
FLt(a, b) ==
    IF a.m = 0 \/ b.m = 0 \/ Sgn(a.m) # Sgn(b.m) THEN a.m < b.m
    ELSE IF a.m > 0 THEN a.e < b.e \/ (a.e = b.e /\ a.m < b.m)
    ELSE a.e > b.e \/ (a.e = b.e /\ a.m < b.m)

\* a > b
FGt(a, b) == FLt(b, a)

\* int64(math.Round(a)): the nearest integer, halves away from zero.
FRound(a) ==
    IF a.e >= 0 THEN a.m * Pow10(a.e)
    ELSE IF -a.e > Digits THEN 0
    ELSE LET d == Pow10(-a.e)
             q == Abs(a.m) \div d
             r == Abs(a.m) % d
         IN  Sgn(a.m) * (IF 2 * r >= d THEN q + 1 ELSE q)

\* The series 1 + y + y^2/2! + ... of e^y, y >= 0: sum holds the terms before
\* the n-th and term the (n-1)-th; it ends when a term no longer changes the
\* sum, and after ExpTerms terms at the latest.
RECURSIVE ExpSeries(_, _, _, _)
ExpSeries(y, n, term, sum) ==
    LET t == FDiv(FMul(term, y), FInt(n))
        s == FAdd(sum, t)
    IN  IF s = sum \/ n >= ExpTerms THEN s ELSE ExpSeries(y, n + 1, t, s)

\* math.Exp(x)
FExp(x) ==
    IF x.m = 0 THEN FInt(1)
    ELSE IF x.m > 0 THEN ExpSeries(x, 1, FInt(1), FInt(1))
    ELSE FDiv(FInt(1), ExpSeries(FNeg(x), 1, FInt(1), FInt(1)))

-----------------------------------------------------------------------------
(***************************************************************************)
(* Configuration and construction (New).                                   *)
(***************************************************************************)

\* A nil status or error.
Nil == "nil"

\* A map with no entries; it also stands for a nil object.
EmptyMap == [x \in {} |-> 0]

\* const Name, preScoreStateKey
Name == "PowerAware"

preScoreStateKey == "PreScorePowerAware"

\* framework.MaxNodeScore
MaxNodeScore == 100

\* The criterion keys, in the order getExtreme walks them.
keys == <<"pods", "cpu", "memory", "power">>

Keys == {keys[i] : i \in 1..Len(keys)}

\* A string is a sequence of one-character strings.
UpperCase == <<"A", "B", "C", "D", "E", "F", "G", "H", "I", "J", "K", "L", "M",
               "N", "O", "P", "Q", "R", "S", "T", "U", "V", "W", "X", "Y", "Z">>

LowerCase == <<"a", "b", "c", "d", "e", "f", "g", "h", "i", "j", "k", "l", "m",
               "n", "o", "p", "q", "r", "s", "t", "u", "v", "w", "x", "y", "z">>

\* The case fold of one character.
SimpleFold(ch) ==
    IF \E i \in 1..Len(UpperCase) : UpperCase[i] = ch
    THEN LowerCase[CHOOSE i \in 1..Len(UpperCase) : UpperCase[i] = ch]
    ELSE ch

\* strings.EqualFold(s, t)
EqualFold(s, t) ==
    /\ Len(s) = Len(t)
    /\ \A i \in 1..Len(s) : SimpleFold(s[i]) = SimpleFold(t[i])

StrCost == <<"C", "o", "s", "t">>

StrBenefit == <<"B", "e", "n", "e", "f", "i", "t">>

\* type CriteriaConfig
CriteriaConfig(w, t) == [Weight |-> w, Type |-> t]

\* type PowerModelArgs
PowerModelArgs(k0, k1, k2) == [K0 |-> k0, K1 |-> k1, K2 |-> k2]

\* The defaults New starts from.
DefaultArgs ==
    [PodLoadBalancingCriteria |-> CriteriaConfig(FNorm(2, -1), StrCost),
     CpuCriteria              |-> CriteriaConfig(FNorm(2, -1), StrCost),
     MemCriteria              |-> CriteriaConfig(FNorm(2, -1), StrCost),
     PowerCriteria            |-> CriteriaConfig(FNorm(4, -1), StrCost),
     PowerModel               |-> PowerModelArgs(FInt(150), FInt(100), FInt(3))]

\* frameworkruntime.DecodeInto(arg, &typedArg): the fields arg gives replace
\* the defaults, the others keep them.
DecodeInto(arg, typedArg) ==
    [f \in DOMAIN typedArg |-> IF f \in DOMAIN arg THEN arg[f] ELSE typedArg[f]]

\* The polarity assign stores for a criterion: costMap[k].
assign(c) == EqualFold(c.Type, StrCost)

\* New(ctx, arg, h)
New(arg) ==
    LET typedArg == IF arg # EmptyMap THEN DecodeInto(arg, DefaultArgs) ELSE DefaultArgs
        crit == [k \in Keys |->
                    CASE k = "pods"   -> typedArg.PodLoadBalancingCriteria
                      [] k = "cpu"    -> typedArg.CpuCriteria
                      [] k = "memory" -> typedArg.MemCriteria
                      [] k = "power"  -> typedArg.PowerCriteria]
    IN  [weights      |-> [k \in Keys |-> crit[k].Weight],
         costCriteria |-> [k \in Keys |-> assign(crit[k])],
         powerModel   |-> typedArg.PowerModel]

\* PowerModelArgs.Estimate of the README and of the plugin source kept with
\* it: K0 + K1 * (1 - exp(-K2 * x))
EstimateSaturating(p, x) ==
    FAdd(p.K0, FMul(p.K1, FSub(FInt(1), FExp(FMul(FNeg(p.K2), x)))))

\* PowerModelArgs.Estimate(x) = K0 + K1 * exp(-K2 * x)
Estimate(p, x) == FAdd(p.K0, FMul(p.K1, FExp(FMul(FNeg(p.K2), x))))

-----------------------------------------------------------------------------
(***************************************************************************)
(* PreScore.                                                               *)
(***************************************************************************)

\* 1e-9
Epsilon == FNorm(1, -9)

\* type nodeVector
nodeVector(p, c, m, pow) == [pods |-> p, cpu |-> c, mem |-> m, power |-> pow]

getVal(v, k) ==
    CASE k = "pods"   -> v.pods
      [] k = "cpu"    -> v.cpu
      [] k = "memory" -> v.mem
      [] k = "power"  -> v.power
      [] OTHER        -> FZero

setVal(v, k, val) ==
    CASE k = "pods"   -> [v EXCEPT !.pods = val]
      [] k = "cpu"    -> [v EXCEPT !.cpu = val]
      [] k = "memory" -> [v EXCEPT !.mem = val]
      [] k = "power"  -> [v EXCEPT !.power = val]
      [] OTHER        -> v

safeDiv(n, d) == IF FLt(d, Epsilon) THEN FZero ELSE FDiv(n, d)

euclideanDist(a, b) ==
    LET sq(x) == FMul(x, x)
    IN  FSqrt(FAdd(FAdd(FAdd(sq(FSub(a.pods, b.pods)),
                             sq(FSub(a.cpu, b.cpu))),
                        sq(FSub(a.mem, b.mem))),
                   sq(FSub(a.power, b.power))))

\* A variant of updateKey with the polarities exchanged: a cost is treated
\* as a benefit and a benefit as a cost.
updateKeyInverted(pl, curr, next, isIdeal, k) ==
    LET v == getVal(next, k)
        c == getVal(curr, k)
        isCost == ~pl.costCriteria[k]
        update == IF isIdeal
                  THEN (isCost /\ FLt(v, c)) \/ (~isCost /\ FGt(v, c))
                  ELSE (isCost /\ FGt(v, c)) \/ (~isCost /\ FLt(v, c))
    IN  IF update THEN v ELSE c

\* One key of getExtreme: the value res holds for k afterwards.
updateKey(pl, curr, next, isIdeal, k) ==
    LET v == getVal(next, k)
        c == getVal(curr, k)
        isCost == pl.costCriteria[k]
        update == IF isIdeal
                  THEN (isCost /\ FLt(v, c)) \/ (~isCost /\ FGt(v, c))
                  ELSE (isCost /\ FGt(v, c)) \/ (~isCost /\ FLt(v, c))
    IN  IF update THEN v ELSE c

\* A variant of getExtreme that never updates.
getExtremeKeep(pl, curr, next, isIdeal) == curr

\* getExtreme(curr, next, isIdeal)
getExtreme(pl, curr, next, isIdeal) ==
    nodeVector(updateKey(pl, curr, next, isIdeal, "pods"),
               updateKey(pl, curr, next, isIdeal, "cpu"),
               updateKey(pl, curr, next, isIdeal, "memory"),
               updateKey(pl, curr, next, isIdeal, "power"))

\* The raw metric vector of one node (the body of the first loop).
rawVector(pl, n) ==
    LET p == FInt(n.Pods)
        c == IF n.Allocatable.MilliCPU > 0
             THEN FDiv(FInt(n.Requested.MilliCPU), FInt(n.Allocatable.MilliCPU))
             ELSE FZero
        m == IF n.Allocatable.Memory > 0
             THEN FDiv(FInt(n.Requested.Memory), FInt(n.Allocatable.Memory))
             ELSE FZero
    IN  nodeVector(p, c, m, Estimate(pl.powerModel, c))

\* A variant of the accumulation that adds the values, not their squares.
addValues(sums, v) ==
    nodeVector(FAdd(sums.pods, v.pods), FAdd(sums.cpu, v.cpu),
               FAdd(sums.mem, v.mem), FAdd(sums.power, v.power))

\* sumP, sumC, sumM, sumPow after a further node.
addSquares(sums, v) ==
    nodeVector(FAdd(sums.pods, FMul(v.pods, v.pods)),
               FAdd(sums.cpu, FMul(v.cpu, v.cpu)),
               FAdd(sums.mem, FMul(v.mem, v.mem)),
               FAdd(sums.power, FMul(v.power, v.power)))

\* m with m[k] = v, the key added when it is new.
MapPut(m, k, v) == [x \in DOMAIN m \cup {k} |-> IF x = k THEN v ELSE m[x]]

\* One iteration of the first loop: the node's raw vector is stored under its
\* name and its squares are added to the sums.
firstStep(prev, name, v) ==
    [rawValues |-> MapPut(prev.rawValues, name, v),
     sums      |-> addSquares(prev.sums, v)]

\* The first loop: rawValues and the sums after nodes[1..i].
RECURSIVE firstLoop(_, _, _)
firstLoop(pl, nodes, i) ==
    IF i = 0
    THEN [rawValues |-> EmptyMap, sums |-> nodeVector(FZero, FZero, FZero, FZero)]
    ELSE firstStep(firstLoop(pl, nodes, i - 1), nodes[i].Name,
                   rawVector(pl, nodes[i]))

\* The denominators: the square roots of the sums.
denomsOf(sums) ==
    nodeVector(FSqrt(sums.pods), FSqrt(sums.cpu), FSqrt(sums.mem), FSqrt(sums.power))

\* The weighted vector of one node (the head of the second loop).
weightedVector(pl, v, denoms) ==
    nodeVector(FMul(safeDiv(v.pods, denoms.pods), pl.weights["pods"]),
               FMul(safeDiv(v.cpu, denoms.cpu), pl.weights["cpu"]),
               FMul(safeDiv(v.mem, denoms.mem), pl.weights["memory"]),
               FMul(safeDiv(v.power, denoms.power), pl.weights["power"]))

\* The weighted matrix the second loop fills.
weightedMatrixOf(pl, rawValues, denoms) ==
    [name \in DOMAIN rawValues |-> weightedVector(pl, rawValues[name], denoms)]

\* A variant of the iteration that takes the node's weighted vector as both
\* extremes, whatever they held.
secondStepLast(pl, prev, weighted) ==
    [ideal |-> weighted, negative |-> weighted]

\* One iteration of the second loop after the first: both folds take the
\* node's weighted vector.
secondStep(pl, prev, weighted) ==
    [ideal    |-> getExtreme(pl, prev.ideal, weighted, TRUE),
     negative |-> getExtreme(pl, prev.negative, weighted, FALSE)]

\* The second loop over rawValues in the order the map yields its keys:
\* ideal and negative after order[1..i].
RECURSIVE secondLoop(_, _, _, _)
secondLoop(pl, weightedMatrix, order, i) ==
    IF i = 1
    THEN [ideal |-> weightedMatrix[order[1]], negative |-> weightedMatrix[order[1]]]
    ELSE secondStep(pl, secondLoop(pl, weightedMatrix, order, i - 1),
                    weightedMatrix[order[i]])

\* A variant of the closeness whose fallback is 0, not 0.5.
closenessOrZero(dMinus, sum) ==
    IF FGt(sum, Epsilon) THEN FDiv(dMinus, sum) ELSE FZero

\* The closeness of a node at distance dMinus from the negative, sum being
\* dPlus + dMinus.
closenessOf(dMinus, sum) ==
    IF FGt(sum, Epsilon) THEN FDiv(dMinus, sum) ELSE FNorm(5, -1)

\* A variant of the score that divides dMinus by dPlus alone.
scoreByRatio(dPlus, dMinus) ==
    FRound(FMul(IF FGt(dPlus, Epsilon) THEN FDiv(dMinus, dPlus) ELSE FNorm(5, -1),
                FInt(MaxNodeScore)))

\* The score of a node at distances dPlus and dMinus.
scoreAt(dPlus, dMinus) ==
    FRound(FMul(closenessOf(dMinus, FAdd(dPlus, dMinus)), FInt(MaxNodeScore)))

\* The score of one node (the body of the third loop).
scoreOf(v, ideal, negative) ==
    scoreAt(euclideanDist(v, ideal), euclideanDist(v, negative))

\* The third loop: the score table.
scoresOf(weightedMatrix, ideal, negative) ==
    [name \in DOMAIN weightedMatrix |-> scoreOf(weightedMatrix[name], ideal, negative)]

\* The locals of PreScore when it returns.
returnLocals(rawValues, denoms, weightedMatrix, second) ==
    [rawValues      |-> rawValues,
     denoms         |-> denoms,
     weightedMatrix |-> weightedMatrix,
     ideal          |-> second.ideal,
     negative       |-> second.negative,
     scores         |-> scoresOf(weightedMatrix, second.ideal, second.negative)]

\* PreScore from the second loop on.
afterNormalize(pl, rawValues, denoms, weightedMatrix, order) ==
    returnLocals(rawValues, denoms, weightedMatrix,
                 secondLoop(pl, weightedMatrix, order, Len(order)))

\* PreScore from the denominators on.
afterFirstLoop(pl, rawValues, denoms, order) ==
    afterNormalize(pl, rawValues, denoms, weightedMatrixOf(pl, rawValues, denoms), order)

\* PreScore after the first loop has left its rawValues and sums in first.
fromSums(pl, first, order) ==
    afterFirstLoop(pl, first.rawValues, denomsOf(first.sums), order)

\* The locals of PreScore when it returns, for a non-empty list; order is
\* the order in which the range over rawValues yields the names.
preScoreLocals(pl, nodes, order) ==
    fromSums(pl, firstLoop(pl, nodes, Len(nodes)), order)

-----------------------------------------------------------------------------
(***************************************************************************)
(* The host's inputs: configuration objects and node snapshots.            *)
(***************************************************************************)

\* framework.NodeInfo, the fields PreScore reads.
NodeInfo(name, pods, reqCPU, allocCPU, reqMem, allocMem) ==
    [Name        |-> name,
     Pods        |-> pods,
     Requested   |-> [MilliCPU |-> reqCPU, Memory |-> reqMem],
     Allocatable |-> [MilliCPU |-> allocCPU, Memory |-> allocMem]]

\* Bytes in a gigabyte.
GB == 10 ^ 9

\* CPU (requested, allocatable) and memory (requested, allocatable) of the
\* three nodes of a snapshot.
Shapes ==
    { \* same CPU and memory everywhere
      << <<1, 5>>, <<GB, 2 * GB>>, <<1, 5>>, <<GB, 2 * GB>>, <<1, 5>>, <<GB, 2 * GB>> >>,
      \* CPU 0.2, 0.8 and none allocatable; no memory requested
      << <<1, 5>>, <<0, GB>>, <<4, 5>>, <<0, GB>>, <<0, 0>>, <<0, 0>> >>,
      \* memory requests of a few bytes
      << <<1, 5>>, <<1, 2 * GB>>, <<1, 5>>, <<0, 2 * GB>>, <<1, 5>>, <<2, 2 * GB>> >>,
      \* mixed
      << <<0, 0>>, <<0, 1>>, <<1, 5>>, <<0, 1>>, <<2, 5>>, <<1, 2>> >>,
      << <<4, 5>>, <<GB, 2 * GB>>, <<4, 5>>, <<2 * GB, 2 * GB>>, <<1, 5>>, <<1, 2 * GB>> >>,
      \* memory full on two nodes and free on the third
      << <<1, 5>>, <<2 * GB, 2 * GB>>, <<1, 5>>, <<2 * GB, 2 * GB>>, <<1, 5>>, <<0, 2 * GB>> >> }

\* Three nodes of shape sh with p[i] pods on the i-th.
Cluster(sh, p) ==
    { NodeInfo("n1", p[1], sh[1][1], sh[1][2], sh[2][1], sh[2][2]),
      NodeInfo("n2", p[2], sh[3][1], sh[3][2], sh[4][1], sh[4][2]),
      NodeInfo("n3", p[3], sh[5][1], sh[5][2], sh[6][1], sh[6][2]) }

\* A snapshot of four nodes.
FourNodes ==
    { NodeInfo("n1", 0, 1, 5, GB, 2 * GB),
      NodeInfo("n2", 1, 4, 5, GB, 2 * GB),
      NodeInfo("n3", 1, 2, 5, 0, 2 * GB),
      NodeInfo("n4", 0, 2, 5, 2 * GB, 2 * GB) }

\* The snapshots: three nodes of every shape with every pod count, and the
\* four nodes.
Clusters ==
    {Cluster(sh, p) : p \in [1..3 -> 0..MaxPods], sh \in Shapes} \cup {FourNodes}

\* The names Score is asked about; no snapshot has a node "n5".
NodeNames == {"n1", "n2", "n3", "n4", "n5"}

StrLowerCost == <<"c", "o", "s", "t">>

StrUpperBenefit == <<"B", "E", "N", "E", "F", "I", "T">>

StrEmpty == << >>

\* The configuration objects: none, the README's scheduler.yaml, CPU alone
\* as a benefit, a flat power model, an unrecognised type, weights of the
\* magnitude of 1e-9.
Args ==
    { EmptyMap,
      [PodLoadBalancingCriteria |-> CriteriaConfig(FNorm(1, -1), StrBenefit),
       CpuCriteria              |-> CriteriaConfig(FNorm(35, -2), StrBenefit),
       MemCriteria              |-> CriteriaConfig(FNorm(35, -2), StrBenefit),
       PowerCriteria            |-> CriteriaConfig(FNorm(2, -1), StrCost),
       PowerModel               |-> PowerModelArgs(FInt(150), FInt(100), FNorm(45, -1))],
      [PodLoadBalancingCriteria |-> CriteriaConfig(FZero, StrLowerCost),
       CpuCriteria              |-> CriteriaConfig(FInt(1), StrUpperBenefit),
       MemCriteria              |-> CriteriaConfig(FZero, StrCost),
       PowerCriteria            |-> CriteriaConfig(FZero, StrCost)],
      [CpuCriteria              |-> CriteriaConfig(FNorm(2, -1), StrBenefit),
       PowerModel               |-> PowerModelArgs(FInt(150), FZero, FZero)],
      [MemCriteria              |-> CriteriaConfig(FNorm(2, -1), StrEmpty)],
      [PodLoadBalancingCriteria |-> CriteriaConfig(FNorm(6, -10), StrBenefit),
       CpuCriteria              |-> CriteriaConfig(FZero, StrCost),
       MemCriteria              |-> CriteriaConfig(FNorm(1, -9), StrCost),
       PowerCriteria            |-> CriteriaConfig(FZero, StrCost)] }

\* The sequences of k distinct elements of S.
Arrangements(S, k) ==
    {s \in [1..k -> S] : \A i, j \in 1..k : i # j => s[i] # s[j]}

\* The candidate lists the filter stage can hand over from a snapshot.
CandidateLists(cl) ==
    UNION {Arrangements(cl, k) : k \in 0..IF Cardinality(cl) < MaxNodes
                                          THEN Cardinality(cl) ELSE MaxNodes}

-----------------------------------------------------------------------------
(***************************************************************************)
(* The plugin and the scheduling attempts that call it.                    *)
(***************************************************************************)

VARIABLES
    arg,        \* the configuration object New was given
    cluster,    \* the node snapshot the candidate lists are drawn from
    pl,         \* the PowerAware instance
    cycle,      \* cycle[a]: the framework.CycleState of attempt a
    pc,         \* pc[a]: "new" before PreScore, "scoring" after it
    nodes,      \* nodes[a]: the list PreScore was called with
    locals,     \* locals[a]: the locals of PreScore when it returned
    ret         \* ret[a]: what the last Score call of attempt a returned

vars == <<arg, cluster, pl, cycle, pc, nodes, locals, ret>>

\* A variant of Write on one store shared by all attempts.
WriteShared(cs, a, key, data) == [b \in DOMAIN cs |-> MapPut(cs[b], key, data)]

\* CycleState.Write(key, data) on the state of attempt a
Write(cs, a, key, data) == [cs EXCEPT ![a] = MapPut(@, key, data)]

\* type preScoreState
preScoreState(scores) == [scores |-> scores]

\* PreScore(ctx, state, pod, nodes) of attempt a
PreScore(a) ==
    /\ pc[a] = "new"
    /\ \E ns \in CandidateLists(cluster) :
          /\ nodes' = [nodes EXCEPT ![a] = ns]
          /\ IF Len(ns) = 0
             THEN /\ cycle' = cycle
                  /\ locals' = locals
             ELSE \E order \in Arrangements({ns[i].Name : i \in 1..Len(ns)}, Len(ns)) :
                    LET l == preScoreLocals(pl, ns, order)
                    IN  /\ cycle' = Write(cycle, a, preScoreStateKey, preScoreState(l.scores))
                        /\ locals' = [locals EXCEPT ![a] = l]
    /\ pc' = [pc EXCEPT ![a] = "scoring"]
    /\ UNCHANGED <<arg, cluster, pl, ret>>

\* A variant of Score that reports a missing table or a missing name as an
\* error.
scoreResultStrict(cs, nodeName) ==
    IF preScoreStateKey \notin DOMAIN cs
    THEN [score |-> 0, status |-> "error"]
    ELSE IF nodeName \in DOMAIN cs[preScoreStateKey].scores
         THEN [score |-> cs[preScoreStateKey].scores[nodeName], status |-> Nil]
         ELSE [score |-> 0, status |-> "error"]

\* What Score returns for nodeName on the cycle state cs.
scoreResult(cs, nodeName) ==
    IF preScoreStateKey \notin DOMAIN cs
    THEN [score |-> 0, status |-> Nil]
    ELSE LET s == cs[preScoreStateKey]
         IN  [score  |-> IF nodeName \in DOMAIN s.scores THEN s.scores[nodeName] ELSE 0,
              status |-> Nil]

\* Score(ctx, state, pod, nodeName) of attempt a
Score(a) ==
    /\ pc[a] = "scoring"
    /\ \E nodeName \in NodeNames :
          ret' = [ret EXCEPT ![a] = [nodeName |-> nodeName] @@ scoreResult(cycle[a], nodeName)]
    /\ UNCHANGED <<arg, cluster, pl, cycle, pc, nodes, locals>>

\* The framework ends the attempt and starts the next on a fresh CycleState.
NewCycle(a) ==
    /\ pc[a] = "scoring"
    /\ cycle' = [cycle EXCEPT ![a] = EmptyMap]
    /\ pc' = [pc EXCEPT ![a] = "new"]
    /\ nodes' = [nodes EXCEPT ![a] = << >>]
    /\ locals' = [locals EXCEPT ![a] = EmptyMap]
    /\ ret' = [ret EXCEPT ![a] = EmptyMap]
    /\ UNCHANGED <<arg, cluster, pl>>

InitAttempts(A) ==
    /\ pl = New(arg)
    /\ cycle = [a \in A |-> EmptyMap]
    /\ pc = [a \in A |-> "new"]
    /\ nodes = [a \in A |-> << >>]
    /\ locals = [a \in A |-> EmptyMap]
    /\ ret = [a \in A |-> EmptyMap]

\* One attempt at a time.
Init ==
    /\ arg \in Args
    /\ cluster \in Clusters
    /\ InitAttempts({1})

Next ==
    \/ \E a \in DOMAIN pc : PreScore(a)
    \/ \E a \in DOMAIN pc : Score(a)
    \/ \E a \in DOMAIN pc : NewCycle(a)

Spec == Init /\ [][Next]_vars

\* The snapshot of the concurrent runs.
ConcCluster ==
    Cluster(<< <<0, 0>>, <<0, 1>>, <<1, 5>>, <<0, 1>>, <<2, 5>>, <<1, 2>> >>,
            [i \in 1..3 |-> 0])

\* Two attempts whose PreScore and Score calls interleave on one plugin.
InitConc ==
    /\ arg = EmptyMap
    /\ cluster = ConcCluster
    /\ InitAttempts({1, 2})

SpecConc == InitConc /\ [][Next]_vars

-----------------------------------------------------------------------------
(***************************************************************************)
(* Properties.                                                             *)
(***************************************************************************)

\* Attempt a has run PreScore on a non-empty list.
Scored(a) == pc[a] = "scoring" /\ nodes[a] # << >>

\* The score table PreScore wrote for attempt a.
Table(a) == cycle[a][preScoreStateKey].scores

\* The names of the candidate list of attempt a.
Candidates(a) == {nodes[a][i].Name : i \in 1..Len(nodes[a])}

\* C1: after PreScore on a non-empty list the table has an entry for each
\* candidate name and for no other name, and every entry is an integer in
\* 0..MaxNodeScore.
C1_ScoreRange ==
    \A a \in DOMAIN pc :
        Scored(a) =>
            /\ preScoreStateKey \in DOMAIN cycle[a]
            /\ DOMAIN Table(a) = Candidates(a)
            /\ \A n \in DOMAIN Table(a) : Table(a)[n] \in 0..MaxNodeScore

\* A table of MaxNodes entries that holds both ends of the range.
C1_Witness ==
    \E a \in DOMAIN pc :
        /\ Scored(a)
        /\ Cardinality(DOMAIN Table(a)) = MaxNodes
        /\ \E n, m \in DOMAIN Table(a) : Table(a)[n] = 0 /\ Table(a)[m] = MaxNodeScore

\* C2: Score returns no error; it returns 0 when the attempt has no table or
\* the table lacks the name; and PreScore on an empty list writes nothing.
C2_ScoreFallback ==
    \A a \in DOMAIN pc :
        /\ ret[a] # EmptyMap =>
              /\ ret[a].status = Nil
              /\ preScoreStateKey \notin DOMAIN cycle[a] => ret[a].score = 0
              /\ (/\ preScoreStateKey \in DOMAIN cycle[a]
                  /\ ret[a].nodeName \notin DOMAIN Table(a)) => ret[a].score = 0
        /\ (pc[a] = "scoring" /\ nodes[a] = << >>) => cycle[a] = EmptyMap

\* Score was asked about a name the table lacks, the table holding non-zero
\* scores for the names it has.
C2_Witness ==
    \E a \in DOMAIN pc :
        /\ Scored(a)
        /\ ret[a] # EmptyMap
        /\ ret[a].nodeName \notin DOMAIN Table(a)
        /\ \A n \in DOMAIN Table(a) : Table(a)[n] > 0
        /\ ret[a].score = 0

\* All the candidates of attempt a have the same raw metrics.
Uniform(a) ==
    \A n, m \in DOMAIN locals[a].rawValues :
        locals[a].rawValues[n] = locals[a].rawValues[m]

\* C3: when the list has one node, or all its nodes have the same raw
\* metrics, ideal and negative coincide and every score is 50.
C3_Degenerate ==
    \A a \in DOMAIN pc :
        (Scored(a) /\ (Len(nodes[a]) = 1 \/ Uniform(a))) =>
            /\ locals[a].ideal = locals[a].negative
            /\ \A n \in DOMAIN Table(a) : Table(a)[n] = 50

\* Several nodes with the same non-zero raw metrics, all scored 50.
C3_Witness ==
    \E a \in DOMAIN pc :
        /\ Scored(a)
        /\ Len(nodes[a]) > 1
        /\ Uniform(a)
        /\ \A n \in DOMAIN Table(a) :
              /\ locals[a].rawValues[n].cpu # FZero
              /\ locals[a].rawValues[n].mem # FZero
              /\ Table(a)[n] = 50

\* What the PreScore of attempt a computed for nodeName, 0 if nothing.
OwnScore(a, nodeName) ==
    IF locals[a] # EmptyMap /\ nodeName \in DOMAIN locals[a].scores
    THEN locals[a].scores[nodeName]
    ELSE 0

\* C4: with two attempts interleaved on one plugin, the state of an attempt
\* holds the table its own PreScore computed and nothing else, Score returns
\* the value of that table or 0, and the plugin's weights, polarities and
\* power model stay as New left them.
C4_Isolation ==
    /\ pl = New(arg)
    /\ \A a \in DOMAIN pc :
          /\ cycle[a] = IF locals[a] = EmptyMap THEN EmptyMap
                        ELSE [x \in {preScoreStateKey} |-> preScoreState(locals[a].scores)]
          /\ ret[a] # EmptyMap => ret[a].score = OwnScore(a, ret[a].nodeName)

\* Both attempts have asked about the same node and got different non-zero
\* scores, each its own.
C4_Witness ==
    /\ Cardinality(DOMAIN pc) = 2
    /\ \E a, b \in DOMAIN pc :
          /\ a # b
          /\ Scored(a) /\ Scored(b)
          /\ ret[a] # EmptyMap /\ ret[b] # EmptyMap
          /\ ret[a].nodeName = ret[b].nodeName
          /\ ret[a].score > 0 /\ ret[b].score > 0
          /\ ret[a].score # ret[b].score

\* The set of nodes of the candidate list of attempt a.
CandidateSet(a) == {nodes[a][i] : i \in 1..Len(nodes[a])}

\* C5: two PreScore calls on lists of the same nodes, in whatever order the
\* lists and the maps give them, write the same table.
C5_OrderIndependent ==
    \A a, b \in DOMAIN pc :
        (Scored(a) /\ Scored(b) /\ CandidateSet(a) = CandidateSet(b)) =>
            Table(a) = Table(b)

\* The raw vectors x and y differ on criterion k and on no other.
DiffersOnlyOn(x, y, k) ==
    /\ getVal(x, k) # getVal(y, k)
    /\ \A j \in Keys \ {k} : getVal(x, j) = getVal(y, j)

\* C6 as stated: of two candidates whose raw vectors differ on one criterion
\* only, of positive weight, the one with the larger value scores no lower
\* when the criterion is a benefit and no higher when it is a cost.
C6_Monotone ==
    \A a \in DOMAIN pc :
        Scored(a) =>
            \A X, Y \in DOMAIN locals[a].rawValues, k \in Keys :
                (/\ DiffersOnlyOn(locals[a].rawValues[X], locals[a].rawValues[Y], k)
                 /\ FGt(pl.weights[k], FZero)
                 /\ FGt(getVal(locals[a].rawValues[X], k), getVal(locals[a].rawValues[Y], k)))
                => IF pl.costCriteria[k]
                   THEN Table(a)[X] <= Table(a)[Y]
                   ELSE Table(a)[X] >= Table(a)[Y]

\* The closeness of candidate n is the fallback 0.5: dPlus + dMinus is not
\* above 1e-9.
Fallback(a, n) ==
    ~FGt(FAdd(euclideanDist(locals[a].weightedMatrix[n], locals[a].ideal),
              euclideanDist(locals[a].weightedMatrix[n], locals[a].negative)),
         Epsilon)

\* C6: of two candidates whose raw vectors differ on one criterion only, of
\* positive weight, and whose closeness is the fallback 0.5 for both or for
\* neither, the one with the larger value scores no lower when the criterion
\* is a benefit and no higher when it is a cost.
C6_MonotoneSameBranch ==
    \A a \in DOMAIN pc :
        Scored(a) =>
            \A X, Y \in DOMAIN locals[a].rawValues, k \in Keys :
                (/\ DiffersOnlyOn(locals[a].rawValues[X], locals[a].rawValues[Y], k)
                 /\ FGt(pl.weights[k], FZero)
                 /\ FGt(getVal(locals[a].rawValues[X], k), getVal(locals[a].rawValues[Y], k))
                 /\ Fallback(a, X) = Fallback(a, Y))
                => IF pl.costCriteria[k]
                   THEN Table(a)[X] <= Table(a)[Y]
                   ELSE Table(a)[X] >= Table(a)[Y]

\* Among MaxNodes candidates, two that differ on one benefit criterion of
\* positive weight, neither at the fallback, the larger scoring strictly
\* higher.
C6_Witness ==
    \E a \in DOMAIN pc :
        /\ Scored(a)
        /\ Len(nodes[a]) = MaxNodes
        /\ \E X, Y \in DOMAIN locals[a].rawValues, k \in Keys :
              /\ DiffersOnlyOn(locals[a].rawValues[X], locals[a].rawValues[Y], k)
              /\ FGt(pl.weights[k], FZero)
              /\ ~pl.costCriteria[k]
              /\ FGt(getVal(locals[a].rawValues[X], k), getVal(locals[a].rawValues[Y], k))
              /\ ~Fallback(a, X) /\ ~Fallback(a, Y)
              /\ Table(a)[X] > Table(a)[Y]

\* The plugin weighs the CPU criterion alone, with weight 1, as a benefit.
CpuBenefitOnly ==
    /\ pl.weights = [k \in Keys |-> IF k = "cpu" THEN FInt(1) ELSE FZero]
    /\ ~pl.costCriteria["cpu"]

\* C7: with two candidates of different CPU utilisation and the CPU criterion
\* alone weighted 1 as a benefit, ideal holds the weighted CPU value of the
\* higher node and negative that of the lower, the higher node scores 100
\* and the lower 0.
C7_TwoNodes ==
    \A a \in DOMAIN pc :
        (Scored(a) /\ Len(nodes[a]) = 2 /\ CpuBenefitOnly) =>
            \A X, Y \in DOMAIN locals[a].rawValues :
                FGt(locals[a].rawValues[X].cpu, locals[a].rawValues[Y].cpu) =>
                    /\ locals[a].ideal.cpu = locals[a].weightedMatrix[X].cpu
                    /\ locals[a].negative.cpu = locals[a].weightedMatrix[Y].cpu
                    /\ Table(a)[X] = MaxNodeScore
                    /\ Table(a)[Y] = 0

\* The two candidates are at CPU utilisation 0.2 and 0.8 and score 0 and 100.
C7_Witness ==
    \E a \in DOMAIN pc :
        /\ Scored(a) /\ Len(nodes[a]) = 2 /\ CpuBenefitOnly
        /\ \E X, Y \in DOMAIN locals[a].rawValues :
              /\ locals[a].rawValues[X].cpu = FNorm(8, -1)
              /\ locals[a].rawValues[Y].cpu = FNorm(2, -1)
              /\ Table(a)[X] = MaxNodeScore
              /\ Table(a)[Y] = 0

\* The criteria New decoded from arg, by key.
Decoded ==
    LET typedArg == IF arg # EmptyMap THEN DecodeInto(arg, DefaultArgs) ELSE DefaultArgs
    IN  [k \in Keys |->
            CASE k = "pods"   -> typedArg.PodLoadBalancingCriteria
              [] k = "cpu"    -> typedArg.CpuCriteria
              [] k = "memory" -> typedArg.MemCriteria
              [] k = "power"  -> typedArg.PowerCriteria]

\* C8: a type that is "benefit" in any case gives the benefit polarity and
\* every other type, "cost" in any case and the empty string included, gives
\* the cost polarity.
C8_Polarity ==
    \A k \in Keys :
        pl.costCriteria[k] = ~EqualFold(Decoded[k].Type, StrBenefit)

\* C9: the power of a node is K0 + K1 * (1 - exp(-K2 * cpu)): K0 at CPU
\* utilisation 0, and with K1 > 0 and K2 > 0 no lower for the node of higher
\* utilisation.
C9_PowerEstimate ==
    \A a \in DOMAIN pc :
        Scored(a) =>
            \A n, m \in DOMAIN locals[a].rawValues :
                /\ locals[a].rawValues[n].power =
                       EstimateSaturating(pl.powerModel, locals[a].rawValues[n].cpu)
                /\ locals[a].rawValues[n].cpu = FZero =>
                       locals[a].rawValues[n].power = pl.powerModel.K0
                /\ (/\ FGt(pl.powerModel.K1, FZero)
                    /\ FGt(pl.powerModel.K2, FZero)
                    /\ FGt(locals[a].rawValues[n].cpu, locals[a].rawValues[m].cpu))
                   => ~FLt(locals[a].rawValues[n].power, locals[a].rawValues[m].power)

\* The normalised value of candidate n on criterion k, before weighting.
Normalized(a, n, k) ==
    safeDiv(getVal(locals[a].rawValues[n], k), getVal(locals[a].denoms, k))

\* The sum of the squares of the normalised values of criterion k over the
\* first i candidates.
RECURSIVE SumSquares(_, _, _)
SumSquares(a, k, i) ==
    IF i = 0 THEN FZero
    ELSE FAdd(SumSquares(a, k, i - 1),
              FMul(Normalized(a, nodes[a][i].Name, k), Normalized(a, nodes[a][i].Name, k)))

\* The floating tolerance of the sum of squares: two units in the last
\* place of 1.
Tolerance == FNorm(2, 1 - Digits)

\* The sum of squares of criterion k is 1 within the tolerance.
UnitNorm(a, k) ==
    LET d == FSub(SumSquares(a, k, Len(nodes[a])), FInt(1))
    IN  ~FGt(d, Tolerance) /\ ~FLt(d, FNeg(Tolerance))

\* Every normalised value of criterion k is 0.
AllZero(a, k) ==
    \A n \in DOMAIN locals[a].rawValues : Normalized(a, n, k) = FZero

\* C10 as stated: per criterion the squares of the normalised values sum
\* to 1 unless every raw value is 0, and then every normalised value is 0.
C10_UnitNormUnlessAllZero ==
    \A a \in DOMAIN pc :
        Scored(a) =>
            \A k \in Keys :
                IF \A n \in DOMAIN locals[a].rawValues :
                       getVal(locals[a].rawValues[n], k) = FZero
                THEN AllZero(a, k)
                ELSE UnitNorm(a, k)

\* C10: per criterion every normalised value is 0 when the denominator is
\* below 1e-9, which includes the case of every raw value being 0, and the
\* squares of the normalised values sum to 1 within the floating tolerance
\* otherwise.
C10_UnitNormAboveEpsilon ==
    \A a \in DOMAIN pc :
        Scored(a) =>
            \A k \in Keys :
                /\ (\A n \in DOMAIN locals[a].rawValues :
                        getVal(locals[a].rawValues[n], k) = FZero)
                   => FLt(getVal(locals[a].denoms, k), Epsilon)
                /\ IF FLt(getVal(locals[a].denoms, k), Epsilon)
                   THEN AllZero(a, k)
                   ELSE UnitNorm(a, k)

\* A criterion with a raw value above 0 and a denominator above 0 and below
\* 1e-9: every normalised value is 0, beside a criterion whose squares sum
\* to 1.
C10_Witness ==
    \E a \in DOMAIN pc :
        /\ Scored(a)
        /\ \E k \in Keys :
              /\ FGt(getVal(locals[a].denoms, k), FZero)
              /\ FLt(getVal(locals[a].denoms, k), Epsilon)
              /\ \E n \in DOMAIN locals[a].rawValues :
                    FGt(getVal(locals[a].rawValues[n], k), FZero)
              /\ AllZero(a, k)
        /\ \E k \in Keys :
              /\ ~FLt(getVal(locals[a].denoms, k), Epsilon)
              /\ UnitNorm(a, k)

\* The weighted values of criterion k over the candidates of attempt a.
WeightedValues(a, k) ==
    {getVal(locals[a].weightedMatrix[n], k) : n \in DOMAIN locals[a].weightedMatrix}

\* x is the largest of the set S of floats.
IsMax(x, S) == x \in S /\ \A y \in S : ~FGt(y, x)

\* x is the smallest of the set S of floats.
IsMin(x, S) == x \in S /\ \A y \in S : ~FLt(y, x)

\* C11: after the fold over the weighted matrix, ideal holds per criterion
\* the largest weighted value if the criterion is a benefit and the smallest
\* if it is a cost, negative the smallest if a benefit and the largest if a
\* cost; the fold gives the same pair in every order of the nodes; and
\* folding in a node again, whose values are at most equal to the extremes
\* held, changes neither.
C11_IdealSolver ==
    \A a \in DOMAIN pc :
        Scored(a) =>
            /\ \A k \in Keys :
                  IF pl.costCriteria[k]
                  THEN /\ IsMin(getVal(locals[a].ideal, k), WeightedValues(a, k))
                       /\ IsMax(getVal(locals[a].negative, k), WeightedValues(a, k))
                  ELSE /\ IsMax(getVal(locals[a].ideal, k), WeightedValues(a, k))
                       /\ IsMin(getVal(locals[a].negative, k), WeightedValues(a, k))
            /\ \A order \in Arrangements(Candidates(a), Len(nodes[a])) :
                  secondLoop(pl, locals[a].weightedMatrix, order, Len(order)) =
                      [ideal |-> locals[a].ideal, negative |-> locals[a].negative]
            /\ \A n \in DOMAIN locals[a].weightedMatrix :
                  /\ getExtreme(pl, locals[a].ideal, locals[a].weightedMatrix[n], TRUE)
                        = locals[a].ideal
                  /\ getExtreme(pl, locals[a].negative, locals[a].weightedMatrix[n], FALSE)
                        = locals[a].negative

\* MaxNodes candidates under a plugin with a benefit and a cost criterion:
\* on the benefit two nodes tie at the largest value, which ideal holds, the
\* third is smaller and negative holds it; on the cost the values differ
\* and ideal holds the smallest.
C11_Witness ==
    \E a \in DOMAIN pc :
        /\ Scored(a)
        /\ Len(nodes[a]) = MaxNodes
        /\ \E k \in Keys :
              /\ ~pl.costCriteria[k]
              /\ \E X, Y, Z \in DOMAIN locals[a].weightedMatrix :
                    /\ X # Y
                    /\ getVal(locals[a].weightedMatrix[X], k)
                          = getVal(locals[a].weightedMatrix[Y], k)
                    /\ getVal(locals[a].ideal, k) = getVal(locals[a].weightedMatrix[X], k)
                    /\ FLt(getVal(locals[a].weightedMatrix[Z], k),
                           getVal(locals[a].weightedMatrix[X], k))
                    /\ getVal(locals[a].negative, k) = getVal(locals[a].weightedMatrix[Z], k)
        /\ \E k \in Keys :
              /\ pl.costCriteria[k]
              /\ FLt(getVal(locals[a].ideal, k), getVal(locals[a].negative, k))

=============================================================================
